---- MODULE Spec2Model ----
(***************************************************************************)
(* Work-efficient scan and stream compaction                               *)
(* (stream_compaction/efficient.cu).                                       *)
(*                                                                         *)
(* The host functions scan and compact are straight-line programs of       *)
(* device operations (cudaMalloc, cudaMemcpy, kernel launches, cudaFree).  *)
(* Kernels run as one block of n threads; launches are asynchronous and    *)
(* queue on the default stream, blocking copies wait for the stream.       *)
(*                                                                         *)
(* Specifications:                                                         *)
(*   Spec        host program + device; a thread's code between two        *)
(*               barriers is one step.                                     *)
(*   SpecAccess  scan from its kernel launch to its return, with           *)
(*               kernelEfficientScan taking one step per memory access.    *)
(*   SpecKernelLive  kernelEfficientScan alone, one step per barrier       *)
(*               interval, with weak fairness of the block's steps.        *)
(*   SpecFused   compact from its launches on, with the three kernels of   *)
(*               lines 198-200 or with kernelEfficientCompact (line 197).  *)
(***************************************************************************)
EXTENDS Integers, Sequences, FiniteSets, TLC

\* Stand-in for the hardware's threads-per-block ceiling (1024 on the device):
\* Spec calls scan and compact with n from -1 to MaxThreads + 1.
MaxThreads == 4
\* The largest block SpecAccess runs kernelEfficientScan with.
AccessThreads == 5

\* Element values of the caller's input: zero, a negative and a positive one.
Vals == {-1, 0, 2}
\* Element values of the blocks above MaxThreads that SpecAccess runs.
AccessVals == {-1, 2}
\* What a read of uninitialised or out-of-range memory may return.
Garbage == {0, 1}
\* Marks a device cell that was allocated and never written.
Undef == -(2 ^ 10)
\* Marks a cell of the caller's output buffer the call has not written.
Stale == Undef - 1

BufNames == {"g_idata", "g_odata", "g_bdata", "g_sdata"}

VARIABLES
    op,        \* "scan" or "compact": the host function called
    n,         \* its argument n
    idata,     \* the caller's input array
    odata,     \* the caller's output array
    hpc,       \* index of the host's next statement in Program
    hstate,    \* "running", "returned" or "aborted" (exit in the status check)
    hloc,      \* host locals N, c1, c2, count
    mem,       \* device buffers, by pointer name
    alloc,     \* pointers that hold a live allocation
    lastErr,   \* the runtime's last-error slot is set
    fault,     \* the device is in a sticky fault state
    stream,    \* kernels launched and not finished, oldest first
    tpc,       \* per thread of the running kernel: its position
    td,        \* per thread: local d
    toff,      \* per thread: local offset
    bar,       \* per thread: barriers passed
    treg,      \* per thread: registers a, b, tmp, acc (SpecAccess)
    kdone,     \* history: kernels that ran to completion, in order
    hist       \* history: failed (a device operation failed), devWork (one was
               \* carried out), queued (kernels queued), oob (an access fell
               \* outside its buffer), hostRead (the host copied from the device)

hvars == <<op, n, idata, odata, hpc, hstate, hloc, alloc, lastErr, fault>>
tvars == <<tpc, td, toff, bar, treg>>
vars == <<op, n, idata, odata, hpc, hstate, hloc, mem, alloc, lastErr, fault,
          stream, tpc, td, toff, bar, treg, kdone, hist>>

-----------------------------------------------------------------------------
\* Host arithmetic

\* ceil(log2 x), 0 for x <= 1
ilog2ceil(x) ==
    IF x <= 1 THEN 0
    ELSE CHOOSE k \in 1..x : 2 ^ k >= x /\ 2 ^ (k - 1) < x

\* int N = (int) pow(2, k) with k = ilog2ceil(n)
PaddedN(nn) == 2 ^ ilog2ceil(nn)

Cells(nn) == 0..(nn - 1)
Threads == Cells(n)

-----------------------------------------------------------------------------
\* Device memory

\* the values a load of buf[i] may return
LoadVals(buf, i) ==
    IF i \in DOMAIN buf /\ buf[i] # Undef THEN {buf[i]} ELSE Garbage

\* buf after a store of v to buf[i]; a store outside the buffer is dropped
Store(buf, i, v) ==
    IF i \in DOMAIN buf THEN [buf EXCEPT ![i] = v] ELSE buf

Fresh(nn) == [i \in Cells(nn) |-> Undef]

\* a, b, tmp: the kernel's locals; acc: the register holding a loaded operand;
\* lvl: the level the thread is in or enters next (0 the initial copy, then
\* the up-sweep levels, the root clear, the down-sweep levels); rl: the last
\* level in which the thread read g_odata (history); rd, wr: the indices of
\* the output buffer the thread has loaded from and stored to since it last
\* passed a barrier (history)
NoRegs == [a |-> 0, b |-> 0, tmp |-> 0, acc |-> 0, lvl |-> 0, rl |-> 0,
           rd |-> {}, wr |-> {}]

\* the registers of a thread that passes a barrier
Passed(regs) == [regs EXCEPT !.rd = {}, !.wr = {}]

ThreadsIdle ==
    /\ tpc = [t \in Threads |-> "start"]
    /\ td = [t \in Threads |-> 0]
    /\ toff = [t \in Threads |-> 0]
    /\ bar = [t \in Threads |-> 0]
    /\ treg = [t \in Threads |-> NoRegs]

ThreadsReset ==
    /\ tpc' = [t \in Threads |-> "start"]
    /\ td' = [t \in Threads |-> 0]
    /\ toff' = [t \in Threads |-> 0]
    /\ bar' = [t \in Threads |-> 0]
    /\ treg' = [t \in Threads |-> NoRegs]

-----------------------------------------------------------------------------
\* Index arithmetic of kernelEfficientScan

InitialOffset == 2

\* the right index taken from n instead of n - 1
IdxAFromN(nn, index, offset) == nn - (index * offset)

\* int a = n - 1 - (index * offset);
IdxA(nn, index, offset) == nn - 1 - (index * offset)

\* the left index a whole stride away
IdxBNoHalf(a, offset) == a - offset

\* int b = a - offset / 2;
IdxB(a, offset) == a - (offset \div 2)

\* the update without its bounds guard
NoGuard(a, b) == TRUE

\* the guard testing the right index alone
GuardOnlyA(a, b) == a >= 0

\* if (a >= 0 && b >= 0)
Guard(a, b) == a >= 0 /\ b >= 0

\* the loop without its __syncthreads()
NoBarrier(t) == TRUE

\* __syncthreads(): thread t, waiting at its (bar[t]+1)-th barrier, may go on
\* once every thread of the block has arrived at that barrier.
BarrierOpen(t) ==
    \A u \in Threads :
        \/ bar[u] > bar[t]
        \/ bar[u] = bar[t] /\ tpc[u] \in {"up", "down", "fcopy", "fscatter"}

\* the down-sweep entered without clearing the root
EnterDownNoClear(buf, t, off, N) ==
    [buf |-> buf,
     off |-> off \div 2,
     d   |-> 1,
     pc  |-> IF 1 <= N \div 2 THEN "down" ELSE "done"]

\* lines 66-71: the code a thread runs between the up-sweep loop and the
\* first test of the down-sweep loop; off is the thread's offset there
EnterDown(buf, t, off, N) ==
    [buf |-> IF t = 0 /\ n > 0 THEN Store(buf, n - 1, 0) ELSE buf,
     off |-> off \div 2,
     d   |-> 1,
     pc  |-> IF 1 <= N \div 2 THEN "down" ELSE "done"]

Running(kern) == stream # <<>> /\ Head(stream).kern = kern

-----------------------------------------------------------------------------
\* prescan (lines 16-48), the GPU Gems kernel for a power-of-two length: the
\* array temp after each of its levels. Its d threads of a level update
\* disjoint pairs, so a level is a function of the array before it.

\* lines 24-29: if (thid < d) temp[bi] += temp[ai], with
\* ai = offset*(2*thid+1)-1 and bi = offset*(2*thid+2)-1 = ai + offset
PrescanUpLevel(temp, d, offset) ==
    [i \in DOMAIN temp |->
        IF \E thid \in 0..(d - 1) : i = offset * (2 * thid + 2) - 1
        THEN temp[i] + temp[i - offset]
        ELSE temp[i]]

\* lines 36-43: if (thid < d) t = temp[ai]; temp[ai] = temp[bi]; temp[bi] += t
PrescanDownLevel(temp, d, offset) ==
    [i \in DOMAIN temp |->
        IF \E thid \in 0..(d - 1) : i = offset * (2 * thid + 2) - 1
        THEN temp[i] + temp[i - offset]
        ELSE IF \E thid \in 0..(d - 1) : i = offset * (2 * thid + 1) - 1
        THEN temp[i + offset]
        ELSE temp[i]]

RECURSIVE PrescanUp(_, _, _, _)
\* lines 22-31: the first `levels` iterations of the loop entered with d, offset
PrescanUp(temp, d, offset, levels) ==
    IF levels <= 0 \/ d < 1 THEN temp
    ELSE PrescanUp(PrescanUpLevel(temp, d, offset), d \div 2, offset * 2,
                   levels - 1)

RECURSIVE PrescanDown(_, _, _, _, _)
\* lines 33-44: the first `levels` iterations of the loop entered with d and
\* the offset the up-sweep left; nn is the array's length
PrescanDown(temp, d, offset, nn, levels) ==
    IF levels <= 0 \/ d >= nn THEN temp
    ELSE PrescanDown(PrescanDownLevel(temp, d, offset \div 2), d * 2,
                     offset \div 2, nn, levels - 1)

\* temp after the first `phases` phases of prescan on the array in0 of length
\* nn = 2^k: phase 0 the load, phases 1..k the up-sweep levels, phase k+1
\* the clear of the last element, phases k+2..2k+1 the down-sweep levels
prescan(in0, nn, phases) ==
    LET k == ilog2ceil(nn)
        up == PrescanUp(in0, nn \div 2, 1, IF phases < k THEN phases ELSE k)
        cleared == [up EXCEPT ![nn - 1] = 0]
    IN IF phases <= k THEN up
       ELSE PrescanDown(cleared, 1, nn, nn, phases - (k + 1))

-----------------------------------------------------------------------------
\* kernelEfficientScan, one step per barrier interval (Spec)

Land(t, out, buf, pc, d, off, bad) ==
    /\ mem' = [mem EXCEPT ![out] = buf]
    /\ tpc' = [tpc EXCEPT ![t] = pc]
    /\ td' = [td EXCEPT ![t] = d]
    /\ toff' = [toff EXCEPT ![t] = off]
    /\ hist' = [hist EXCEPT !.oob = @ \/ bad]

\* lines 51-55 (and 66-71 when the up-sweep loop has no iteration)
ScanCopy(t) ==
    /\ Running("scan") /\ tpc[t] = "start"
    /\ LET k == Head(stream) IN
       \E v \in LoadVals(mem[k.in], t) :
          LET buf1 == Store(mem[k.out], t, v)
              d0 == k.N \div 2
              r == EnterDown(buf1, t, InitialOffset, k.N)
          IN IF d0 >= 1
             THEN Land(t, k.out, buf1, "up", d0, InitialOffset, FALSE)
             ELSE Land(t, k.out, r.buf, r.pc, r.d, r.off, FALSE)
    /\ UNCHANGED <<hvars, stream, bar, treg, kdone>>

\* lines 56-65: one up-sweep level (and 66-71 after the last one)
ScanUp(t) ==
    /\ Running("scan") /\ tpc[t] = "up" /\ BarrierOpen(t)
    /\ LET k == Head(stream)
           a == IdxA(n, t, toff[t])
           b == IdxB(a, toff[t])
           active == t < td[t] /\ Guard(a, b)
           bad == active /\ ({a, b} \subseteq Threads) = FALSE
       IN \E va \in IF active THEN LoadVals(mem[k.out], a) ELSE {0},
             vb \in IF active THEN LoadVals(mem[k.out], b) ELSE {0} :
          LET buf1 == IF active THEN Store(mem[k.out], a, va + vb)
                      ELSE mem[k.out]
              off1 == toff[t] * 2
              d1 == td[t] \div 2
              r == EnterDown(buf1, t, off1, k.N)
          IN IF d1 >= 1
             THEN Land(t, k.out, buf1, "up", d1, off1, bad)
             ELSE Land(t, k.out, r.buf, r.pc, r.d, r.off, bad)
    /\ bar' = [bar EXCEPT ![t] = @ + 1]
    /\ UNCHANGED <<hvars, stream, treg, kdone>>

\* a down-sweep level whose barrier only the threads with an element to
\* update wait at
ScanDownIdleSkipsBarrier(t) ==
    /\ Running("scan") /\ tpc[t] = "down" /\ (t < td[t] => BarrierOpen(t))
    /\ LET k == Head(stream)
           a == IdxA(n, t, toff[t])
           b == IdxB(a, toff[t])
           active == t < td[t] /\ Guard(a, b)
           bad == active /\ ({a, b} \subseteq Threads) = FALSE
       IN \E va \in IF active THEN LoadVals(mem[k.out], a) ELSE {0},
             vb \in IF active THEN LoadVals(mem[k.out], b) ELSE {0} :
          LET buf1 == IF active
                      THEN Store(Store(mem[k.out], b, va), a, va + vb)
                      ELSE mem[k.out]
              off1 == toff[t] \div 2
              d1 == td[t] * 2
          IN Land(t, k.out, buf1, IF d1 <= k.N \div 2 THEN "down" ELSE "done",
                  d1, off1, bad)
    /\ bar' = [bar EXCEPT ![t] = IF t < td[t] THEN @ + 1 ELSE @]
    /\ UNCHANGED <<hvars, stream, treg, kdone>>

\* lines 72-83: one down-sweep level
ScanDown(t) ==
    /\ Running("scan") /\ tpc[t] = "down" /\ BarrierOpen(t)
    /\ LET k == Head(stream)
           a == IdxA(n, t, toff[t])
           b == IdxB(a, toff[t])
           active == t < td[t] /\ Guard(a, b)
           bad == active /\ ({a, b} \subseteq Threads) = FALSE
       IN \E va \in IF active THEN LoadVals(mem[k.out], a) ELSE {0},
             vb \in IF active THEN LoadVals(mem[k.out], b) ELSE {0} :
          LET buf1 == IF active
                      THEN Store(Store(mem[k.out], b, va), a, va + vb)
                      ELSE mem[k.out]
              off1 == toff[t] \div 2
              d1 == td[t] * 2
          IN Land(t, k.out, buf1, IF d1 <= k.N \div 2 THEN "down" ELSE "done",
                  d1, off1, bad)
    /\ bar' = [bar EXCEPT ![t] = @ + 1]
    /\ UNCHANGED <<hvars, stream, treg, kdone>>

\* Common::kernMapToBoolean: bools[index] = idata[index] != 0
MapThread(t) ==
    /\ Running("map") /\ tpc[t] = "start"
    /\ LET k == Head(stream) IN
       \E v \in LoadVals(mem[k.in], t) :
          Land(t, k.out, Store(mem[k.out], t, IF v # 0 THEN 1 ELSE 0),
               "done", 0, 0, FALSE)
    /\ UNCHANGED <<hvars, stream, bar, treg, kdone>>

\* Common::kernScatter: if (bools[index] == 1) odata[indices[index]] = idata[index]
ScatterThread(t) ==
    /\ Running("scatter") /\ tpc[t] = "start"
    /\ LET k == Head(stream) IN
       \E m \in LoadVals(mem[k.bools], t), dst \in LoadVals(mem[k.indices], t),
          v \in LoadVals(mem[k.in], t) :
          Land(t, k.out,
               IF m = 1 THEN Store(mem[k.out], dst, v) ELSE mem[k.out],
               "done", 0, 0, m = 1 /\ dst \notin Threads)
    /\ UNCHANGED <<hvars, stream, bar, treg, kdone>>

-----------------------------------------------------------------------------
\* kernelEfficientCompact (lines 86-135), one step per barrier interval

\* lines 87-94: the thread's element of the mask; it then waits at line 96
FusedMap(t) ==
    /\ Running("fused") /\ tpc[t] = "start"
    /\ LET k == Head(stream) IN
       \E v \in LoadVals(mem[k.in], t) :
          Land(t, k.bools, Store(mem[k.bools], t, IF v = 0 THEN 0 ELSE 1),
               "fcopy", 0, 0, FALSE)
    /\ UNCHANGED <<hvars, stream, bar, treg, kdone>>

\* the scan started on the input instead of the mask
FusedCopyFromInput(t) ==
    /\ Running("fused") /\ tpc[t] = "fcopy" /\ BarrierOpen(t)
    /\ LET k == Head(stream) IN
       \E v \in LoadVals(mem[k.in], t) :
          LET buf1 == Store(mem[k.indices], t, v)
              d0 == k.N \div 2
              r == EnterDown(buf1, t, InitialOffset, k.N)
          IN IF d0 >= 1
             THEN Land(t, k.indices, buf1, "up", d0, InitialOffset, FALSE)
             ELSE Land(t, k.indices, r.buf,
                       IF r.pc = "done" THEN "fscatter" ELSE r.pc, r.d, r.off, FALSE)
    /\ bar' = [bar EXCEPT ![t] = @ + 1]
    /\ UNCHANGED <<hvars, stream, treg, kdone>>

\* lines 96-100: the barrier, g_sdata[index] = g_bdata[index], and the first
\* test of the up-sweep loop (lines 111-116 when it has no iteration)
FusedCopy(t) ==
    /\ Running("fused") /\ tpc[t] = "fcopy" /\ BarrierOpen(t)
    /\ LET k == Head(stream) IN
       \E v \in LoadVals(mem[k.bools], t) :
          LET buf1 == Store(mem[k.indices], t, v)
              d0 == k.N \div 2
              r == EnterDown(buf1, t, InitialOffset, k.N)
          IN IF d0 >= 1
             THEN Land(t, k.indices, buf1, "up", d0, InitialOffset, FALSE)
             ELSE Land(t, k.indices, r.buf,
                       IF r.pc = "done" THEN "fscatter" ELSE r.pc, r.d, r.off, FALSE)
    /\ bar' = [bar EXCEPT ![t] = @ + 1]
    /\ UNCHANGED <<hvars, stream, treg, kdone>>

\* lines 101-110: one up-sweep level (and 111-116 after the last one)
FusedUp(t) ==
    /\ Running("fused") /\ tpc[t] = "up" /\ BarrierOpen(t)
    /\ LET k == Head(stream)
           a == IdxA(n, t, toff[t])
           b == IdxB(a, toff[t])
           active == t < td[t] /\ Guard(a, b)
           bad == active /\ ({a, b} \subseteq Threads) = FALSE
       IN \E va \in IF active THEN LoadVals(mem[k.indices], a) ELSE {0},
             vb \in IF active THEN LoadVals(mem[k.indices], b) ELSE {0} :
          LET buf1 == IF active THEN Store(mem[k.indices], a, va + vb)
                      ELSE mem[k.indices]
              off1 == toff[t] * 2
              d1 == td[t] \div 2
              r == EnterDown(buf1, t, off1, k.N)
          IN IF d1 >= 1
             THEN Land(t, k.indices, buf1, "up", d1, off1, bad)
             ELSE Land(t, k.indices, r.buf, r.pc, r.d, r.off, bad)
    /\ bar' = [bar EXCEPT ![t] = @ + 1]
    /\ UNCHANGED <<hvars, stream, treg, kdone>>

\* lines 117-128: one down-sweep level; after the last one the thread waits
\* at line 130
FusedDown(t) ==
    /\ Running("fused") /\ tpc[t] = "down" /\ BarrierOpen(t)
    /\ LET k == Head(stream)
           a == IdxA(n, t, toff[t])
           b == IdxB(a, toff[t])
           active == t < td[t] /\ Guard(a, b)
           bad == active /\ ({a, b} \subseteq Threads) = FALSE
       IN \E va \in IF active THEN LoadVals(mem[k.indices], a) ELSE {0},
             vb \in IF active THEN LoadVals(mem[k.indices], b) ELSE {0} :
          LET buf1 == IF active
                      THEN Store(Store(mem[k.indices], b, va), a, va + vb)
                      ELSE mem[k.indices]
              off1 == toff[t] \div 2
              d1 == td[t] * 2
          IN Land(t, k.indices, buf1,
                  IF d1 <= k.N \div 2 THEN "down" ELSE "fscatter", d1, off1, bad)
    /\ bar' = [bar EXCEPT ![t] = @ + 1]
    /\ UNCHANGED <<hvars, stream, treg, kdone>>

\* lines 130-134: the barrier, then
\* if (g_bdata[index] == 1) g_odata[g_sdata[index]] = g_idata[index]
FusedScatter(t) ==
    /\ Running("fused") /\ tpc[t] = "fscatter" /\ BarrierOpen(t)
    /\ LET k == Head(stream) IN
       \E m \in LoadVals(mem[k.bools], t), dst \in LoadVals(mem[k.indices], t),
          v \in LoadVals(mem[k.in], t) :
          Land(t, k.out,
               IF m = 1 THEN Store(mem[k.out], dst, v) ELSE mem[k.out],
               "done", td[t], toff[t], m = 1 /\ dst \notin Threads)
    /\ bar' = [bar EXCEPT ![t] = @ + 1]
    /\ UNCHANGED <<hvars, stream, treg, kdone>>

\* the block has finished: the kernel leaves the stream
KernelRetire ==
    /\ stream # <<>>
    /\ \A t \in Threads : tpc[t] = "done"
    /\ kdone' = Append(kdone, Head(stream).kern)
    /\ stream' = Tail(stream)
    /\ ThreadsReset
    /\ UNCHANGED <<hvars, mem, hist>>

-----------------------------------------------------------------------------
\* The host programs: scan (lines 141-165) and compact (lines 176-217),
\* statement by statement. A launch fills in the kernel's parameter N from
\* the host's N.

\* scan freeing g_odata twice and g_idata never
ScanProgramFreesTwice == <<
    [ins |-> "malloc", buf |-> "g_idata"],
    [ins |-> "check"],
    [ins |-> "malloc", buf |-> "g_odata"],
    [ins |-> "check"],
    [ins |-> "h2d", buf |-> "g_idata"],
    [ins |-> "launch", k |-> [kern |-> "scan", out |-> "g_odata", in |-> "g_idata", N |-> 0]],
    [ins |-> "d2h", buf |-> "g_odata", len |-> "n"],
    [ins |-> "check"],
    [ins |-> "free", buf |-> "g_odata"],
    [ins |-> "free", buf |-> "g_odata"],
    [ins |-> "ret"] >>

ScanProgram == <<
    [ins |-> "malloc", buf |-> "g_idata"],
    [ins |-> "check"],
    [ins |-> "malloc", buf |-> "g_odata"],
    [ins |-> "check"],
    [ins |-> "h2d", buf |-> "g_idata"],
    [ins |-> "launch", k |-> [kern |-> "scan", out |-> "g_odata", in |-> "g_idata", N |-> 0]],
    [ins |-> "d2h", buf |-> "g_odata", len |-> "n"],
    [ins |-> "check"],
    [ins |-> "free", buf |-> "g_odata"],
    [ins |-> "free", buf |-> "g_idata"],
    [ins |-> "ret"] >>

\* the scan of the mask launched before the kernel that writes the mask
ScanLaunchedFirst == <<
    [ins |-> "launch", k |-> [kern |-> "scan", out |-> "g_sdata", in |-> "g_bdata", N |-> 0]],
    [ins |-> "launch", k |-> [kern |-> "map", out |-> "g_bdata", in |-> "g_idata", N |-> 0]],
    [ins |-> "launch", k |-> [kern |-> "scatter", out |-> "g_odata", in |-> "g_idata",
                              bools |-> "g_bdata", indices |-> "g_sdata", N |-> 0]] >>

\* the mask scanned in place
ScanInPlace == <<
    [ins |-> "launch", k |-> [kern |-> "map", out |-> "g_bdata", in |-> "g_idata", N |-> 0]],
    [ins |-> "launch", k |-> [kern |-> "scan", out |-> "g_bdata", in |-> "g_bdata", N |-> 0]],
    [ins |-> "launch", k |-> [kern |-> "scatter", out |-> "g_odata", in |-> "g_idata",
                              bools |-> "g_bdata", indices |-> "g_bdata", N |-> 0]] >>

\* lines 198-200: the three kernels of compact, in the order they are launched
CompactLaunches == <<
    [ins |-> "launch", k |-> [kern |-> "map", out |-> "g_bdata", in |-> "g_idata", N |-> 0]],
    [ins |-> "launch", k |-> [kern |-> "scan", out |-> "g_sdata", in |-> "g_bdata", N |-> 0]],
    [ins |-> "launch", k |-> [kern |-> "scatter", out |-> "g_odata", in |-> "g_idata",
                              bools |-> "g_bdata", indices |-> "g_sdata", N |-> 0]] >>

CompactProgram == <<
    [ins |-> "malloc", buf |-> "g_idata"],
    [ins |-> "check"],
    [ins |-> "malloc", buf |-> "g_odata"],
    [ins |-> "check"],
    [ins |-> "malloc", buf |-> "g_bdata"],
    [ins |-> "check"],
    [ins |-> "malloc", buf |-> "g_sdata"],
    [ins |-> "check"],
    [ins |-> "h2d", buf |-> "g_idata"] >>
    \o CompactLaunches \o <<
    [ins |-> "readback", dst |-> "c1", buf |-> "g_bdata"],
    [ins |-> "readback", dst |-> "c2", buf |-> "g_sdata"],
    [ins |-> "sum"],
    [ins |-> "d2h", buf |-> "g_odata", len |-> "count"],
    [ins |-> "free", buf |-> "g_odata"],
    [ins |-> "free", buf |-> "g_idata"],
    [ins |-> "free", buf |-> "g_sdata"],
    [ins |-> "free", buf |-> "g_bdata"],
    [ins |-> "ret"] >>

\* compact with line 197 in place of lines 198-200: the one fused kernel
FusedProgram ==
    SubSeq(CompactProgram, 1, 9) \o <<
    [ins |-> "launch", k |-> [kern |-> "fused", out |-> "g_odata", in |-> "g_idata",
                              bools |-> "g_bdata", indices |-> "g_sdata", N |-> 0]] >>
    \o SubSeq(CompactProgram, 13, 21)

Program ==
    IF op = "scan" THEN ScanProgram
    ELSE IF op = "fused" THEN FusedProgram
    ELSE CompactProgram

At(kind) == hstate = "running" /\ Program[hpc].ins = kind

\* the launch configuration <<<1, n>>> is one the device accepts
ValidLaunch(nn) == nn >= 1 /\ nn <= MaxThreads

\* a device operation failed: the runtime records the error
Failed(sticky) ==
    /\ lastErr' = TRUE
    /\ fault' = (fault \/ sticky)

\* cudaMalloc((void**)&buf, n * sizeof(int)): the device may be out of memory;
\* a negative n converts to a size no device can supply
HostMalloc ==
    /\ At("malloc")
    /\ LET I == Program[hpc] IN
       \E ok \in IF n < 0 \/ fault THEN {FALSE} ELSE BOOLEAN :
          /\ IF ok
             THEN /\ alloc' = alloc \cup {I.buf}
                  /\ mem' = [mem EXCEPT ![I.buf] = Fresh(n)]
                  /\ UNCHANGED <<lastErr, fault>>
             ELSE /\ Failed(FALSE)
                  /\ UNCHANGED <<alloc, mem>>
          /\ hist' = [hist EXCEPT !.devWork = @ \/ ok, !.failed = @ \/ ~ok]
    /\ hpc' = hpc + 1
    /\ UNCHANGED <<op, n, idata, odata, hstate, hloc, stream, tvars, kdone>>

\* checkCUDAErrorFn(msg): exits the process when an error is recorded
HostCheck ==
    /\ At("check")
    /\ IF lastErr
       THEN hstate' = "aborted" /\ hpc' = hpc
       ELSE hstate' = hstate /\ hpc' = hpc + 1
    /\ UNCHANGED <<op, n, idata, odata, hloc, mem, alloc, lastErr, fault,
                   stream, tvars, kdone, hist>>

\* cudaMemcpy(buf, idata, sizeof(int) * n, cudaMemcpyHostToDevice)
HostCopyIn ==
    /\ At("h2d") /\ stream = <<>>
    /\ LET I == Program[hpc] IN
       \E ok \in IF fault \/ I.buf \notin alloc THEN {FALSE} ELSE BOOLEAN :
          /\ IF ok
             THEN /\ mem' = [mem EXCEPT ![I.buf] = [i \in DOMAIN @ |-> idata[i]]]
                  /\ UNCHANGED <<lastErr, fault>>
             ELSE /\ Failed(TRUE)
                  /\ UNCHANGED mem
          /\ hist' = [hist EXCEPT !.devWork = @ \/ ok, !.failed = @ \/ ~ok]
    /\ hpc' = hpc + 1
    /\ UNCHANGED <<op, n, idata, odata, hstate, hloc, alloc, stream, tvars, kdone>>

\* kernel<<<1, n>>>(...): asynchronous; the kernel queues on the stream. The
\* launch fails when the configuration is invalid or the device has faulted.
HostLaunch ==
    /\ At("launch")
    /\ LET I == Program[hpc] IN
       LET ok == ValidLaunch(n) /\ ~fault IN
          /\ IF ok
             THEN /\ stream' = Append(stream, [I.k EXCEPT !.N = hloc.N])
                  /\ UNCHANGED <<lastErr, fault>>
             ELSE /\ Failed(FALSE)
                  /\ UNCHANGED stream
          /\ hist' = [hist EXCEPT !.devWork = @ \/ ok, !.failed = @ \/ ~ok,
                                  !.queued = IF ok THEN @ + 1 ELSE @]
    /\ hpc' = hpc + 1
    /\ UNCHANGED <<op, n, idata, odata, hstate, hloc, mem, alloc, tvars, kdone>>

\* cudaMemcpy(&c, buf + n - 1, sizeof(int), cudaMemcpyDeviceToHost): blocking
HostReadBack ==
    /\ At("readback") /\ stream = <<>>
    /\ LET I == Program[hpc] IN
       \E ok \in IF fault THEN {FALSE} ELSE BOOLEAN :
          /\ IF ok
             THEN /\ \E v \in LoadVals(mem[I.buf], n - 1) :
                        hloc' = [hloc EXCEPT ![I.dst] = v]
                  /\ UNCHANGED <<lastErr, fault>>
             ELSE /\ \E v \in Garbage : hloc' = [hloc EXCEPT ![I.dst] = v]
                  /\ Failed(TRUE)
          /\ hist' = [hist EXCEPT !.devWork = @ \/ ok, !.failed = @ \/ ~ok,
                                  !.hostRead = TRUE,
                                  !.oob = @ \/ (ok /\ (n - 1) \notin DOMAIN mem[I.buf])]
    /\ hpc' = hpc + 1
    /\ UNCHANGED <<op, n, idata, odata, hstate, mem, alloc, stream, tvars, kdone>>

\* the count taken from the scanned value alone
HostSumNoLast ==
    /\ At("sum")
    /\ hloc' = [hloc EXCEPT !.count = hloc.c2]
    /\ hpc' = hpc + 1
    /\ UNCHANGED <<op, n, idata, odata, hstate, mem, alloc, lastErr, fault,
                   stream, tvars, kdone, hist>>

\* int count = c1 + c2;
HostSum ==
    /\ At("sum")
    /\ hloc' = [hloc EXCEPT !.count = hloc.c1 + hloc.c2]
    /\ hpc' = hpc + 1
    /\ UNCHANGED <<op, n, idata, odata, hstate, mem, alloc, lastErr, fault,
                   stream, tvars, kdone, hist>>

\* the whole buffer copied back, whatever the count
CopyLenWhole(I) == n

\* the number of elements copied back: n in scan (line 160), count in compact
\* (line 209)
CopyLen(I) == IF I.len = "n" THEN n ELSE hloc.count

\* cudaMemcpy(odata, buf, sizeof(int) * len, cudaMemcpyDeviceToHost): blocking
HostCopyOut ==
    /\ At("d2h") /\ stream = <<>>
    /\ LET I == Program[hpc]
           len == CopyLen(I)
       IN
       \E ok \in IF fault THEN {FALSE} ELSE BOOLEAN :
          /\ IF ok
             THEN /\ odata' = [i \in DOMAIN odata |->
                                 IF i < len /\ i \in DOMAIN mem[I.buf]
                                 THEN mem[I.buf][i] ELSE odata[i]]
                  /\ UNCHANGED <<lastErr, fault>>
             ELSE /\ Failed(TRUE)
                  /\ UNCHANGED odata
          /\ hist' = [hist EXCEPT !.devWork = @ \/ ok, !.failed = @ \/ ~ok,
                                  !.hostRead = TRUE,
                                  !.oob = @ \/ (ok /\ len > Cardinality(DOMAIN mem[I.buf]))]
    /\ hpc' = hpc + 1
    /\ UNCHANGED <<op, n, idata, hstate, hloc, mem, alloc, stream, tvars, kdone>>

\* cudaFree(buf)
HostFree ==
    /\ At("free") /\ stream = <<>>
    /\ LET I == Program[hpc] IN
       /\ alloc' = alloc \ {I.buf}
       /\ mem' = [mem EXCEPT ![I.buf] = <<>>]
    /\ hpc' = hpc + 1
    /\ UNCHANGED <<op, n, idata, odata, hstate, hloc, lastErr, fault,
                   stream, tvars, kdone, hist>>

\* return (count)
HostReturn ==
    /\ At("ret")
    /\ hstate' = "returned"
    /\ UNCHANGED <<op, n, idata, odata, hpc, hloc, mem, alloc, lastErr, fault,
                   stream, tvars, kdone, hist>>

-----------------------------------------------------------------------------

Init ==
    /\ op \in {"scan", "compact"}
    /\ n \in -1..(MaxThreads + 1)
    /\ idata \in [Cells(n) -> Vals]
    /\ odata = [i \in Cells(n) |-> Stale]
    /\ hpc = 1
    /\ hstate = "running"
    /\ hloc = [N |-> PaddedN(n), c1 |-> 0, c2 |-> 0, count |-> 0]
    /\ mem = [b \in BufNames |-> <<>>]
    /\ alloc = {}
    /\ lastErr = FALSE
    /\ fault = FALSE
    /\ stream = <<>>
    /\ ThreadsIdle
    /\ kdone = <<>>
    /\ hist = [failed |-> FALSE, devWork |-> FALSE, queued |-> 0,
               oob |-> FALSE, hostRead |-> FALSE]

Next ==
    \/ HostMalloc
    \/ HostCheck
    \/ HostCopyIn
    \/ HostLaunch
    \/ HostReadBack
    \/ HostSum
    \/ HostCopyOut
    \/ HostFree
    \/ HostReturn
    \/ \E t \in Threads : ScanCopy(t)
    \/ \E t \in Threads : ScanUp(t)
    \/ \E t \in Threads : ScanDown(t)
    \/ \E t \in Threads : MapThread(t)
    \/ \E t \in Threads : ScatterThread(t)
    \/ KernelRetire

Spec == Init /\ [][Next]_vars

-----------------------------------------------------------------------------
\* kernelEfficientScan, one step per memory access (SpecAccess)

SetThread(t, pc, d, off, regs) ==
    /\ tpc' = [tpc EXCEPT ![t] = pc]
    /\ td' = [td EXCEPT ![t] = d]
    /\ toff' = [toff EXCEPT ![t] = off]
    /\ treg' = [treg EXCEPT ![t] = regs]

\* the root cleared by every thread of the block
AfterUpAllClear(t, off, regs, N) ==
    IF n > 0
    THEN [pc |-> "clear", d |-> 0, off |-> off, regs |-> regs]
    ELSE [pc |-> IF 1 <= N \div 2 THEN "down" ELSE "done", d |-> 1,
          off |-> off \div 2, regs |-> [regs EXCEPT !.lvl = @ + 1]]

\* lines 66-71 for a thread that leaves the up-sweep loop with offset off:
\* thread 0 goes on to clear the root, the others to the down-sweep loop
AfterUp(t, off, regs, N) ==
    IF t = 0 /\ n > 0
    THEN [pc |-> "clear", d |-> 0, off |-> off, regs |-> regs]
    ELSE [pc |-> IF 1 <= N \div 2 THEN "down" ELSE "done", d |-> 1,
          off |-> off \div 2, regs |-> [regs EXCEPT !.lvl = @ + 1]]

\* the up-sweep with a stride that never grows
UpNextNoDouble(t, d, off, regs, N) ==
    LET r1 == [regs EXCEPT !.lvl = @ + 1] IN
    IF d \div 2 >= 1
    THEN [pc |-> "up", d |-> d \div 2, off |-> off, regs |-> r1]
    ELSE AfterUp(t, off * 2, r1, N)

\* lines 64, 55: offset *= 2; d >>= 1; and the loop test
UpNext(t, d, off, regs, N) ==
    LET r1 == [regs EXCEPT !.lvl = @ + 1] IN
    IF d \div 2 >= 1
    THEN [pc |-> "up", d |-> d \div 2, off |-> off * 2, regs |-> r1]
    ELSE AfterUp(t, off * 2, r1, N)

\* the down-sweep with a stride that never shrinks
DownNextNoHalve(t, d, off, regs, N) ==
    [pc |-> IF d * 2 <= N \div 2 THEN "down" ELSE "done", d |-> d * 2,
     off |-> off, regs |-> [regs EXCEPT !.lvl = @ + 1]]

\* lines 82, 71: offset /= 2; d *= 2; and the loop test
DownNext(t, d, off, regs, N) ==
    [pc |-> IF d * 2 <= N \div 2 THEN "down" ELSE "done", d |-> d * 2,
     off |-> off \div 2, regs |-> [regs EXCEPT !.lvl = @ + 1]]

Goto(t, r) == SetThread(t, r.pc, r.d, r.off, r.regs)

\* line 53, the load of g_idata[index]
AccCopyRead(t) ==
    /\ Running("scan") /\ tpc[t] = "start"
    /\ \E v \in LoadVals(mem[Head(stream).in], t) :
          SetThread(t, "copy_wr", 0, InitialOffset, [treg[t] EXCEPT !.acc = v])
    /\ UNCHANGED <<hvars, mem, stream, bar, kdone, hist>>

\* line 53, the store to g_odata[index]; line 55, int d = N / 2 and the test
AccCopyWrite(t) ==
    /\ Running("scan") /\ tpc[t] = "copy_wr"
    /\ LET k == Head(stream)
           r1 == [treg[t] EXCEPT !.lvl = 1, !.wr = @ \cup {t}]
       IN /\ mem' = [mem EXCEPT ![k.out] = Store(@, t, treg[t].acc)]
          /\ IF k.N \div 2 >= 1
             THEN SetThread(t, "up", k.N \div 2, toff[t], r1)
             ELSE Goto(t, AfterUp(t, toff[t], r1, k.N))
    /\ UNCHANGED <<hvars, stream, bar, kdone, hist>>

\* lines 56-60: the barrier, then the indices and the guard
AccUpSync(t) ==
    /\ Running("scan") /\ tpc[t] = "up" /\ BarrierOpen(t)
    /\ LET k == Head(stream)
           a == IdxA(n, t, toff[t])
           b == IdxB(a, toff[t])
       IN IF t < td[t] /\ Guard(a, b)
          THEN SetThread(t, "up_rdb", td[t], toff[t],
                         [Passed(treg[t]) EXCEPT !.a = a, !.b = b])
          ELSE Goto(t, UpNext(t, td[t], toff[t], Passed(treg[t]), k.N))
    /\ bar' = [bar EXCEPT ![t] = @ + 1]
    /\ UNCHANGED <<hvars, mem, stream, kdone, hist>>

\* line 61, the load of g_odata[b]
AccUpReadB(t) ==
    /\ Running("scan") /\ tpc[t] = "up_rdb"
    /\ \E v \in LoadVals(mem[Head(stream).out], treg[t].b) :
          SetThread(t, "up_rda", td[t], toff[t],
                    [treg[t] EXCEPT !.tmp = v, !.rl = treg[t].lvl,
                                     !.rd = @ \cup {treg[t].b}])
    /\ UNCHANGED <<hvars, mem, stream, bar, kdone, hist>>

\* line 61, the load of g_odata[a]
AccUpReadA(t) ==
    /\ Running("scan") /\ tpc[t] = "up_rda"
    /\ \E v \in LoadVals(mem[Head(stream).out], treg[t].a) :
          SetThread(t, "up_wr", td[t], toff[t],
                    [treg[t] EXCEPT !.acc = v, !.rl = treg[t].lvl,
                                     !.rd = @ \cup {treg[t].a}])
    /\ UNCHANGED <<hvars, mem, stream, bar, kdone, hist>>

\* line 61, the store to g_odata[a]; then lines 64, 55
AccUpWrite(t) ==
    /\ Running("scan") /\ tpc[t] = "up_wr"
    /\ LET k == Head(stream) IN
       /\ mem' = [mem EXCEPT ![k.out] = Store(@, treg[t].a, treg[t].acc + treg[t].tmp)]
       /\ Goto(t, UpNext(t, td[t], toff[t],
                         [treg[t] EXCEPT !.wr = @ \cup {treg[t].a}], k.N))
    /\ UNCHANGED <<hvars, stream, bar, kdone, hist>>

\* lines 67-71: thread 0 clears the root
AccClear(t) ==
    /\ Running("scan") /\ tpc[t] = "clear"
    /\ LET k == Head(stream) IN
       /\ mem' = [mem EXCEPT ![k.out] = Store(@, n - 1, 0)]
       /\ SetThread(t, IF 1 <= k.N \div 2 THEN "down" ELSE "done", 1,
                    toff[t] \div 2,
                    [treg[t] EXCEPT !.lvl = @ + 1, !.wr = @ \cup {n - 1}])
    /\ UNCHANGED <<hvars, stream, bar, kdone, hist>>

\* lines 72-76: the barrier, then the indices and the guard
AccDownSync(t) ==
    /\ Running("scan") /\ tpc[t] = "down" /\ BarrierOpen(t)
    /\ LET k == Head(stream)
           a == IdxA(n, t, toff[t])
           b == IdxB(a, toff[t])
       IN IF t < td[t] /\ Guard(a, b)
          THEN SetThread(t, "dn_rdb", td[t], toff[t],
                         [Passed(treg[t]) EXCEPT !.a = a, !.b = b])
          ELSE Goto(t, DownNext(t, td[t], toff[t], Passed(treg[t]), k.N))
    /\ bar' = [bar EXCEPT ![t] = @ + 1]
    /\ UNCHANGED <<hvars, mem, stream, kdone, hist>>

\* line 77: int tmp = g_odata[b]
AccDownReadB(t) ==
    /\ Running("scan") /\ tpc[t] = "dn_rdb"
    /\ \E v \in LoadVals(mem[Head(stream).out], treg[t].b) :
          SetThread(t, "dn_rda", td[t], toff[t],
                    [treg[t] EXCEPT !.tmp = v, !.rl = treg[t].lvl,
                                     !.rd = @ \cup {treg[t].b}])
    /\ UNCHANGED <<hvars, mem, stream, bar, kdone, hist>>

\* line 78, the load of g_odata[a]
AccDownReadA(t) ==
    /\ Running("scan") /\ tpc[t] = "dn_rda"
    /\ \E v \in LoadVals(mem[Head(stream).out], treg[t].a) :
          SetThread(t, "dn_wrb", td[t], toff[t],
                    [treg[t] EXCEPT !.acc = v, !.rl = treg[t].lvl,
                                     !.rd = @ \cup {treg[t].a}])
    /\ UNCHANGED <<hvars, mem, stream, bar, kdone, hist>>

\* line 78, the store to g_odata[b]
AccDownWriteB(t) ==
    /\ Running("scan") /\ tpc[t] = "dn_wrb"
    /\ mem' = [mem EXCEPT ![Head(stream).out] = Store(@, treg[t].b, treg[t].acc)]
    /\ SetThread(t, "dn_rda2", td[t], toff[t],
                 [treg[t] EXCEPT !.wr = @ \cup {treg[t].b}])
    /\ UNCHANGED <<hvars, stream, bar, kdone, hist>>

\* line 79, the load of g_odata[a]
AccDownReadA2(t) ==
    /\ Running("scan") /\ tpc[t] = "dn_rda2"
    /\ \E v \in LoadVals(mem[Head(stream).out], treg[t].a) :
          SetThread(t, "dn_wra", td[t], toff[t],
                    [treg[t] EXCEPT !.acc = v, !.rl = treg[t].lvl,
                                     !.rd = @ \cup {treg[t].a}])
    /\ UNCHANGED <<hvars, mem, stream, bar, kdone, hist>>

\* line 79, the store to g_odata[a]; then lines 82, 71
AccDownWriteA(t) ==
    /\ Running("scan") /\ tpc[t] = "dn_wra"
    /\ LET k == Head(stream) IN
       /\ mem' = [mem EXCEPT ![k.out] = Store(@, treg[t].a, treg[t].acc + treg[t].tmp)]
       /\ Goto(t, DownNext(t, td[t], toff[t],
                           [treg[t] EXCEPT !.wr = @ \cup {treg[t].a}], k.N))
    /\ UNCHANGED <<hvars, stream, bar, kdone, hist>>

\* scan has copied the input in and launched kernelEfficientScan<<<1, n>>>;
\* the host is at the copy of line 160
InitAccess ==
    /\ op = "scan"
    /\ n \in 1..AccessThreads
    /\ idata \in [Cells(n) -> IF n <= MaxThreads THEN Vals ELSE AccessVals]
    /\ odata = [i \in Cells(n) |-> Stale]
    /\ hpc = 7
    /\ hstate = "running"
    /\ hloc = [N |-> PaddedN(n), c1 |-> 0, c2 |-> 0, count |-> 0]
    /\ mem = [b \in BufNames |->
                IF b = "g_idata" THEN idata
                ELSE IF b = "g_odata" THEN Fresh(n) ELSE <<>>]
    /\ alloc = {"g_idata", "g_odata"}
    /\ lastErr = FALSE
    /\ fault = FALSE
    /\ stream = <<[ScanProgram[6].k EXCEPT !.N = PaddedN(n)]>>
    /\ ThreadsIdle
    /\ kdone = <<>>
    /\ hist = [failed |-> FALSE, devWork |-> TRUE, queued |-> 1,
               oob |-> FALSE, hostRead |-> FALSE]

NextAccess ==
    \/ \E t \in Threads : AccCopyRead(t)
    \/ \E t \in Threads : AccCopyWrite(t)
    \/ \E t \in Threads : AccUpSync(t)
    \/ \E t \in Threads : AccUpReadB(t)
    \/ \E t \in Threads : AccUpReadA(t)
    \/ \E t \in Threads : AccUpWrite(t)
    \/ \E t \in Threads : AccClear(t)
    \/ \E t \in Threads : AccDownSync(t)
    \/ \E t \in Threads : AccDownReadB(t)
    \/ \E t \in Threads : AccDownReadA(t)
    \/ \E t \in Threads : AccDownWriteB(t)
    \/ \E t \in Threads : AccDownReadA2(t)
    \/ \E t \in Threads : AccDownWriteA(t)
    \/ KernelRetire
    \/ HostCopyOut
    \/ HostCheck
    \/ HostFree
    \/ HostReturn

SpecAccess == InitAccess /\ [][NextAccess]_vars

\* compact has allocated its four buffers and copied the input in; it goes
\* on with the launches of lines 198-200 ("compact") or with the launch of
\* line 197 in their place ("fused")
InitFused ==
    /\ op \in {"compact", "fused"}
    /\ n \in 1..MaxThreads
    /\ idata \in [Cells(n) -> Vals]
    /\ odata = [i \in Cells(n) |-> Stale]
    /\ hpc = 10
    /\ hstate = "running"
    /\ hloc = [N |-> PaddedN(n), c1 |-> 0, c2 |-> 0, count |-> 0]
    /\ mem = [b \in BufNames |-> IF b = "g_idata" THEN idata ELSE Fresh(n)]
    /\ alloc = BufNames
    /\ lastErr = FALSE
    /\ fault = FALSE
    /\ stream = <<>>
    /\ ThreadsIdle
    /\ kdone = <<>>
    /\ hist = [failed |-> FALSE, devWork |-> TRUE, queued |-> 0,
               oob |-> FALSE, hostRead |-> FALSE]

NextFused ==
    \/ HostLaunch
    \/ HostReadBack
    \/ HostSum
    \/ HostCopyOut
    \/ HostFree
    \/ HostReturn
    \/ \E t \in Threads : ScanCopy(t)
    \/ \E t \in Threads : ScanUp(t)
    \/ \E t \in Threads : ScanDown(t)
    \/ \E t \in Threads : MapThread(t)
    \/ \E t \in Threads : ScatterThread(t)
    \/ \E t \in Threads : FusedMap(t)
    \/ \E t \in Threads : FusedCopy(t)
    \/ \E t \in Threads : FusedUp(t)
    \/ \E t \in Threads : FusedDown(t)
    \/ \E t \in Threads : FusedScatter(t)
    \/ KernelRetire

\* the three-kernel pipeline and the fused kernel, side by side
SpecFused == InitFused /\ [][NextFused]_vars

\* kernelEfficientScan<<<1, n>>> alone, one step per barrier interval
NextKernel ==
    \/ \E t \in Threads : ScanCopy(t)
    \/ \E t \in Threads : ScanUp(t)
    \/ \E t \in Threads : ScanDown(t)
    \/ KernelRetire

\* The device runs the threads of a launched block for as long as one of
\* them has a step to take.
SpecKernelLive == InitAccess /\ [][NextKernel]_vars /\ WF_vars(NextKernel)

-----------------------------------------------------------------------------
\* What the results are compared with

RECURSIVE SumTo(_, _)
\* f[0] + ... + f[i-1]
SumTo(f, i) == IF i <= 0 THEN 0 ELSE SumTo(f, i - 1) + f[i - 1]

RECURSIVE Kept(_, _)
\* the non-zero elements among f[0], ..., f[i-1], in order
Kept(f, i) ==
    IF i <= 0 THEN <<>>
    ELSE IF f[i - 1] # 0 THEN Append(Kept(f, i - 1), f[i - 1])
    ELSE Kept(f, i - 1)

Returned(o) == op = o /\ hstate = "returned"

-----------------------------------------------------------------------------
\* C1: when scan returns for an n >= 1, odata is the exclusive prefix sum of
\* idata: odata[i] = idata[0] + ... + idata[i-1] (so odata[0] = 0), whatever
\* order the threads' loads and stores were interleaved in.
C1_ScanIsExclusivePrefixSum ==
    (Returned("scan") /\ n >= 1) =>
        \A i \in Cells(n) : odata[i] = SumTo(idata, i)

\* scan has returned for n = 3 (not a power of two) on a positive, a zero and
\* a negative element
C1_Witness ==
    /\ Returned("scan") /\ n = 3
    /\ idata[0] = 2 /\ idata[1] = 0 /\ idata[2] = -1
    /\ odata[0] = 0 /\ odata[1] = 2 /\ odata[2] = 2

\* C2: when compact returns for an n >= 1 and no device operation failed, the
\* count is the number of non-zero elements of idata and odata[0..count) holds
\* them in their original order.
C2_CompactKeepsNonZeroInOrder ==
    (Returned("compact") /\ n >= 1 /\ ~hist.failed) =>
        LET K == Kept(idata, n) IN
        /\ hloc.count = Len(K)
        /\ \A j \in 1..Len(K) : odata[j - 1] = K[j]

\* compact has returned 2 for the input 2, 0, -1, 0
C2_Witness ==
    /\ Returned("compact") /\ n = 4 /\ ~hist.failed
    /\ idata[0] = 2 /\ idata[1] = 0 /\ idata[2] = -1 /\ idata[3] = 0
    /\ hloc.count = 2 /\ odata[0] = 2 /\ odata[1] = -1

\* the index a thread of kernelEfficientScan accesses next, at the positions
\* where its next step is a memory access
NextIndex(t) ==
    CASE tpc[t] \in {"start", "copy_wr"} -> t
      [] tpc[t] \in {"up_rdb", "dn_rdb", "dn_wrb"} -> treg[t].b
      [] tpc[t] \in {"up_rda", "up_wr", "dn_rda", "dn_rda2", "dn_wra"} -> treg[t].a
      [] tpc[t] = "clear" -> n - 1
      [] OTHER -> 0

\* C3: every load and store of every thread of kernelEfficientScan (the
\* initial copy, each up-sweep level, the root clear, each down-sweep level)
\* is at an index in [0, n).
C3_AccessesInRange ==
    Running("scan") => \A t \in Threads : NextIndex(t) \in Cells(n)

\* n = 5: a thread of the down-sweep is about to load g_odata[0]
C3_Witness ==
    /\ n = 5 /\ Running("scan")
    /\ \E t \in Threads : tpc[t] = "dn_rdb" /\ treg[t].b = 0

\* C4: for n = 0 no kernel is queued, no buffer element is read or written,
\* and compact returns count 0.
C4_EmptyInputDoesNothing ==
    n = 0 =>
        /\ hist.queued = 0
        /\ ~hist.oob
        /\ Returned("compact") => hloc.count = 0

\* C5: when compact returns for an idata without zeros, count = n and odata
\* equals idata element for element.
C5_NoZerosIsIdentity ==
    (Returned("compact") /\ n >= 1 /\ ~hist.failed
       /\ \A i \in Cells(n) : idata[i] # 0) =>
        /\ hloc.count = n
        /\ \A i \in Cells(n) : odata[i] = idata[i]

\* compact has returned for the input 2, -1, 2
C5_Witness ==
    /\ Returned("compact") /\ n = 3 /\ ~hist.failed
    /\ idata[0] = 2 /\ idata[1] = -1 /\ idata[2] = 2
    /\ hloc.count = 3

\* C6: scan and compact do not return once one of their device operations
\* has failed.
C6_NoReturnAfterFailure ==
    hstate = "returned" => ~hist.failed

\* C7: for n negative or above the thread ceiling no device operation is
\* carried out.
C7_RejectedBeforeDeviceWork ==
    (n < 0 \/ n > MaxThreads) => ~hist.devWork

\* C8: when a thread has read g_odata in level k+1, every thread has finished
\* level k (the initial copy is level 0, then the up-sweep levels, the root
\* clear, the down-sweep levels).
C8_LevelWritesBeforeNextReads ==
    Running("scan") =>
        \A t, u \in Threads :
            treg[t].rl >= 1 => treg[u].lvl >= treg[t].rl

\* n = 5: a thread has read in the second down-sweep level
C8_Witness ==
    /\ n = 5 /\ Running("scan")
    /\ \E t \in Threads : treg[t].rl = 6 /\ tpc[t] = "dn_wrb"

\* C9: in compact a thread of the scan runs only when the mask kernel has
\* finished, a thread of the scatter only when the scan has finished, and the
\* host copies from the device only when every queued kernel has finished.
C9_PhasesInOrder ==
    op = "compact" =>
        /\ (Running("scan") /\ \E t \in Threads : tpc[t] # "start")
              => kdone = <<"map">>
        /\ (Running("scatter") /\ \E t \in Threads : tpc[t] # "start")
              => kdone = <<"map", "scan">>
        /\ hist.hostRead => (stream = <<>> /\ Len(kdone) = hist.queued)
        /\ hist.queued = 3 /\ stream = <<>>
              => kdone = <<"map", "scan", "scatter">>

\* the host has copied from the device after the three kernels of a compact
\* of 3 elements
C9_Witness ==
    /\ op = "compact" /\ n = 3 /\ hist.hostRead
    /\ kdone = <<"map", "scan", "scatter">>

\* C10: once the mask is scanned, the destinations scanned[i] of the
\* elements with mask[i] = 1 are pairwise distinct and lie in [0, count),
\* count = mask[n-1] + scanned[n-1].
C10_ScatterDestinationsDistinct ==
    (op = "compact" /\ ~hist.failed /\ Len(kdone) >= 2
       /\ {"g_bdata", "g_sdata"} \subseteq alloc) =>
        LET mask == mem["g_bdata"]
            scanned == mem["g_sdata"]
            cnt == mask[n - 1] + scanned[n - 1]
        IN /\ \A i, j \in Cells(n) :
                 (i # j /\ mask[i] = 1 /\ mask[j] = 1) => scanned[i] # scanned[j]
           /\ \A i \in Cells(n) :
                 mask[i] = 1 => (0 <= scanned[i] /\ scanned[i] < cnt)

\* the scatter kernel runs on a mask with three ones among four elements
C10_Witness ==
    /\ op = "compact" /\ n = 4 /\ ~hist.failed /\ Running("scatter")
    /\ mem["g_bdata"][0] = 1 /\ mem["g_bdata"][1] = 0
    /\ mem["g_bdata"][2] = 1 /\ mem["g_bdata"][3] = 1
    /\ mem["g_sdata"][3] = 2

\* the cells of a device buffer that have been written
Written(buf) == {i \in DOMAIN buf : buf[i] # Undef}

\* C11: in a compact of n >= 1 elements without a failed device operation the
\* count c1 + c2 lies in 0..n, the scatter has written exactly the cells
\* 0..count-1 of g_odata, and once the output is copied back exactly the
\* entries odata[0..count) of the caller's array have been written: the
\* entries odata[count..n) still hold what they held before the call.
C11_CountIsWhatIsWritten ==
    (op = "compact" /\ n >= 1 /\ ~hist.failed /\ hpc >= 16) =>
        /\ 0 <= hloc.count /\ hloc.count <= n
        /\ "g_odata" \in alloc => Written(mem["g_odata"]) = Cells(hloc.count)
        /\ hpc >= 17 =>
              \A i \in Cells(n) : (odata[i] # Stale) <=> (i < hloc.count)

\* compact has returned 1 for the input 0, 2, 0: odata[0] is written, odata[1]
\* and odata[2] are untouched
C11_Witness ==
    /\ Returned("compact") /\ n = 3 /\ ~hist.failed
    /\ idata[0] = 0 /\ idata[1] = 2 /\ idata[2] = 0
    /\ hloc.count = 1
    /\ odata[0] = 2 /\ odata[1] = Stale /\ odata[2] = Stale

\* C12: when thread 0 has left the up-sweep loop and is about to clear the
\* root, g_odata[n-1] holds idata[0] + ... + idata[n-1]; from the clear until
\* thread 0 passes the first barrier of the down-sweep (or the end of the
\* kernel, when there is no down-sweep) g_odata[n-1] is 0.
C12_RootHoldsTotalThenZero ==
    Running("scan") =>
        /\ tpc[0] = "clear" => mem[Head(stream).out][n - 1] = SumTo(idata, n)
        /\ (tpc[0] \in {"down", "done"} /\ td[0] = 1)
              => mem[Head(stream).out][n - 1] = 0

\* n = 3 and the input 2, -1, 2: thread 0 is about to clear the root, which
\* holds 3
C12_Witness ==
    /\ Running("scan") /\ n = 3 /\ tpc[0] = "clear"
    /\ idata[0] = 2 /\ idata[1] = -1 /\ idata[2] = 2
    /\ mem["g_odata"][2] = 3

\* the positions of a thread inside the down-sweep loop: at its barrier, and
\* at the loads and stores of lines 77-79
DownPcs == {"down", "dn_rdb", "dn_rda", "dn_wrb", "dn_rda2", "dn_wra"}

\* a thread at a load or store of the down-sweep is active (t < d) and uses
\* a = n-1-t*offset and b = a-offset/2 with the offset of its level
DownIndices(t) ==
    tpc[t] \in DownPcs \ {"down"} =>
        /\ t < td[t]
        /\ treg[t].a = n - 1 - t * toff[t]
        /\ treg[t].b = treg[t].a - (toff[t] \div 2)

\* C13 as stated: in the down-sweep level with d active threads (d = 1, 2,
\* ..., N/2) the step size offset is N/2, N/4, ..., 1, that is (N/2)/d, and
\* an active thread uses a = n-1-t*offset, b = a-offset/2.
C13_DownOffsetsFromHalfN ==
    Running("scan") =>
        \A t \in Threads :
            tpc[t] \in DownPcs =>
                /\ td[t] \in 1..(Head(stream).N \div 2)
                /\ td[t] * toff[t] = Head(stream).N \div 2
                /\ DownIndices(t)

\* C13 amended: in the down-sweep level with d active threads (d = 1, 2,
\* ..., N/2) the step size offset is N, N/2, ..., 2, that is N/d, and an
\* active thread uses a = n-1-t*offset, b = a-offset/2.
C13_DownOffsetsFromN ==
    Running("scan") =>
        \A t \in Threads :
            tpc[t] \in DownPcs =>
                /\ td[t] \in 1..(Head(stream).N \div 2)
                /\ td[t] * toff[t] = Head(stream).N
                /\ DownIndices(t)

\* n = 5 (N = 8): thread 1 is in the last down-sweep level, d = 4 and
\* offset = 2, about to load g_odata[b]
C13_Witness ==
    /\ Running("scan") /\ n = 5
    /\ tpc[1] = "dn_rdb" /\ td[1] = 4 /\ toff[1] = 2
    /\ treg[1].a = 2 /\ treg[1].b = 1

\* the device buffers a queued kernel was given
KernelBuffers(k) ==
    {k.out, k.in} \cup (IF k.kern = "scatter" THEN {k.bools, k.indices} ELSE {})

\* C14: a call that returns leaves no device buffer allocated; every cudaFree
\* is of a buffer that is allocated (none is freed twice), every cudaMalloc
\* is of a pointer that holds no allocation, and every copy and every kernel
\* works on buffers that are allocated (none is used after it is freed).
C14_BuffersFreedOnceAfterUse ==
    /\ hstate = "returned" => alloc = {}
    /\ At("free") => Program[hpc].buf \in alloc
    /\ At("malloc") => Program[hpc].buf \notin alloc
    /\ (At("h2d") \/ At("d2h") \/ At("readback")) => Program[hpc].buf \in alloc
    /\ \A j \in 1..Len(stream) : KernelBuffers(stream[j]) \subseteq alloc

\* compact has returned after its three kernels ran on 3 elements, and none
\* of its four buffers is allocated any more
C14_Witness ==
    /\ Returned("compact") /\ n = 3
    /\ kdone = <<"map", "scan", "scatter">>
    /\ alloc = {}

\* C15: two distinct threads of kernelEfficientScan that are between the
\* same two barriers have not accessed a common element of the output
\* buffer unless both only read it: what one has written since the barrier,
\* the other has neither read nor written.
C15_NoRaceBetweenBarriers ==
    Running("scan") =>
        \A t, u \in Threads :
            (t # u /\ bar[t] = bar[u]) =>
                treg[t].wr \cap (treg[u].rd \cup treg[u].wr) = {}

\* n = 5: in the last down-sweep level threads 0 and 1 have both stored
\* both of their elements
C15_Witness ==
    /\ Running("scan") /\ n = 5
    /\ bar[0] = bar[1] /\ td[0] = 8 /\ td[1] = 8
    /\ treg[0].wr = {4, 3} /\ treg[1].wr = {2, 1}

\* the barriers a thread of kernelEfficientScan passes: one per level of the
\* up-sweep and one per level of the down-sweep
BarriersPerThread == 2 * ilog2ceil(n)

\* C16: a thread of kernelEfficientScan never passes more than 2*log2(N)
\* barriers and has passed exactly that many when it finishes, whatever its
\* index, n and the data; and the kernel, once it runs, finishes: every
\* thread gets through all its barriers.
C16_SameBarriersAndTermination ==
    /\ [](Running("scan") =>
            \A t \in Threads :
                /\ bar[t] <= BarriersPerThread
                /\ tpc[t] = "done" => bar[t] = BarriersPerThread)
    /\ (Running("scan") ~> (stream = <<>> /\ kdone = <<"scan">>))

\* n = 5: every thread has finished after 6 barriers
C16_Witness ==
    /\ Running("scan") /\ n = 5
    /\ \A t \in Threads : tpc[t] = "done" /\ bar[t] = 6

\* the caller's input with N - n zeros put in front of it
PaddedInput ==
    [i \in Cells(PaddedN(n)) |->
        IF i < PaddedN(n) - n THEN 0 ELSE idata[i - (PaddedN(n) - n)]]

\* every thread of kernelEfficientScan is at rest (at a barrier, before the
\* root clear, or finished) having completed phase p and no later one; the
\* phases are numbered as for prescan, and the root clear is a phase of
\* thread 0 alone
AtPhase(p) ==
    LET k == ilog2ceil(n) IN
    \A t \in Threads :
        /\ tpc[t] \in {"up", "down", "clear", "done"}
        /\ IF t # 0 /\ treg[t].lvl = k + 2
           THEN p \in {k, k + 1}
           ELSE p = treg[t].lvl - 1

\* the active threads and the offset of kernelEfficientScan in phase p
LevelOf(p) ==
    LET k == ilog2ceil(n)
        N == PaddedN(n)
    IN IF p <= k THEN [d |-> N \div (2 ^ p), off |-> 2 ^ p]
       ELSE [d |-> 2 ^ (p - k - 2), off |-> N \div (2 ^ (p - k - 2))]

\* C17: whenever all threads of kernelEfficientScan have completed the same
\* phase, the value at every index i in [0, n) is the value prescan has after
\* that phase at index i + (N - n) on the input with N - n zeros in front;
\* and an update of that phase that the guard a >= 0 && b >= 0 skipped
\* leaves, in prescan, the values at its indices that map from [0, n) as
\* they were before the phase.
C17_RefinesPaddedPrescan ==
    Running("scan") =>
        LET k == ilog2ceil(n)
            N == PaddedN(n)
            out == mem[Head(stream).out]
        IN \A p \in 0..(2 * k + 1) :
              AtPhase(p) =>
                /\ \A i \in Cells(n) :
                      out[i] = prescan(PaddedInput, N, p)[i + (N - n)]
                /\ (p \in 1..k \/ p >= k + 2) =>
                      \A t \in Threads :
                         LET a == IdxA(n, t, LevelOf(p).off)
                             b == IdxB(a, LevelOf(p).off)
                         IN (t < LevelOf(p).d /\ ~Guard(a, b) /\ a >= 0) =>
                               prescan(PaddedInput, N, p)[a + (N - n)]
                                 = prescan(PaddedInput, N, p - 1)[a + (N - n)]

\* n = 3 and the input 2, -1, 2: every thread has completed the first
\* down-sweep level, in which thread 0 swapped and added across the root
C17_Witness ==
    /\ Running("scan") /\ n = 3
    /\ idata[0] = 2 /\ idata[1] = -1 /\ idata[2] = 2
    /\ AtPhase(4)
    /\ mem["g_odata"][0] = 0 /\ mem["g_odata"][1] = -1 /\ mem["g_odata"][2] = 2

\* C18: no step changes the caller's idata; no step of kernelEfficientScan
\* changes the buffer the kernel was given as its input; and in compact,
\* from the end of the map-to-boolean kernel until g_bdata is freed (so
\* through the scan, the scatter and the read of mask[n-1]) no step changes
\* the mask.
C18_InputsNeverWritten ==
    [][/\ idata' = idata
       /\ (Running("scan") /\ stream' = stream)
             => mem'[Head(stream).in] = mem[Head(stream).in]
       /\ (op = "compact" /\ Len(kdone) >= 1 /\ "g_bdata" \in alloc')
             => mem'["g_bdata"] = mem["g_bdata"]]_vars

\* compact of 2, 0, -1: the three kernels have finished, the host has read
\* mask[n-1] = 1, and the mask is still 1, 0, 1
C18_Witness ==
    /\ op = "compact" /\ n = 3 /\ ~hist.failed
    /\ idata[0] = 2 /\ idata[1] = 0 /\ idata[2] = -1
    /\ kdone = <<"map", "scan", "scatter">>
    /\ hpc = 14 /\ hloc.c1 = 1
    /\ mem["g_bdata"][0] = 1 /\ mem["g_bdata"][1] = 0 /\ mem["g_bdata"][2] = 1

\* the mask of the input and its exclusive prefix sums
MaskOf(f) == [i \in DOMAIN f |-> IF f[i] # 0 THEN 1 ELSE 0]
ScannedMaskOf(f) == [i \in DOMAIN f |-> SumTo(MaskOf(f), i)]

\* every kernel of the call has been launched and has finished
KernelsFinished ==
    /\ stream = <<>>
    /\ kdone = IF op = "fused" THEN <<"fused">> ELSE <<"map", "scan", "scatter">>

\* C19: for the same input, kernelEfficientCompact and the three kernels of
\* compact leave the same mask, the same scanned mask and the same output
\* entries [0, count), under every interleaving of their threads: for either
\* of them, once its kernels have finished, g_bdata is the mask of idata,
\* g_sdata its exclusive prefix sums and g_odata[0..count) the non-zero
\* elements of idata in order, and the call returns that count and output.
C19_FusedKernelMatchesPipeline ==
    (op \in {"compact", "fused"} /\ n >= 1 /\ ~hist.failed) =>
        LET K == Kept(idata, n) IN
        /\ (KernelsFinished /\ {"g_bdata", "g_sdata", "g_odata"} \subseteq alloc) =>
              /\ mem["g_bdata"] = MaskOf(idata)
              /\ mem["g_sdata"] = ScannedMaskOf(idata)
              /\ \A j \in 1..Len(K) : mem["g_odata"][j - 1] = K[j]
        /\ hstate = "returned" =>
              /\ hloc.count = Len(K)
              /\ \A j \in 1..Len(K) : odata[j - 1] = K[j]

\* the fused kernel has finished on the input 2, 0, -1, 0
C19_Witness ==
    /\ op = "fused" /\ n = 4 /\ ~hist.failed /\ KernelsFinished
    /\ idata[0] = 2 /\ idata[1] = 0 /\ idata[2] = -1 /\ idata[3] = 0
    /\ mem["g_bdata"][3] = 0 /\ mem["g_sdata"][3] = 2
    /\ mem["g_odata"][0] = 2 /\ mem["g_odata"][1] = -1

====
